---- MODULE Spec2Model ----
(***************************************************************************)
(* The search-filter store of the explorer (searchStore, useSearchFilters, *)
(* useSearchFilter, selectFilter, deselectFilter, useSavedSearches, ...).  *)
(*                                                                         *)
(* Strings are sequences of one-character strings, so that template        *)
(* literals, parseInt and substring search are computed, not assumed.      *)
(* An optional value (undefined / null / absent property) is a sequence of *)
(* length 0 (None) or 1 (Some(x)).                                         *)
(***************************************************************************)
EXTENDS Integers, Sequences, FiniteSets, TLC

VARIABLES
    registeredFilters,  \* searchStore.registeredFilters : Map<string, Filter>
    selectedFilters,    \* searchStore.selectedFilters   : Map<string, SetFilter>
    searchQuery,        \* searchStore.searchQuery       : string | null
    fixedFilters,       \* the array the owning view passes to useSearchFilters
    usf,                \* the useSearchFilters hook instance: mounted, last deps
    sf,                 \* the useSearchFilter hook instance: mounted, deps, memo
    searches,           \* savedSearches.data || []
    nextId,             \* the id the library gives the next created search
    lastOp              \* the operation that produced this state, and its input

vars == <<registeredFilters, selectedFilters, searchQuery, fixedFilters,
          usf, sf, searches, nextId, lastOp>>

\* ------------------------------------------------------------------ bounds

MaxSelected == 2
MaxRegistered == 3
MaxSearchId == 3
MaxPicked == 3

\* ------------------------------------------------------- optional values

None == <<>>
Some(x) == <<x>>
IsSome(o) == Len(o) = 1
The(o) == o[1]

\* ----------------------------------------------------------------- strings

Dash == <<"-">>
Empty == <<>>
Digits == {"0", "1", "2", "3", "4", "5", "6", "7", "8", "9"}

Home == <<"H", "o", "m", "e">>
Work == <<"W", "o", "r", "k">>
Play == <<"P", "l", "a", "y">>
StrTrue == <<"t", "r", "u", "e">>
StrFalse == <<"f", "a", "l", "s", "e">>

DigitVal(c) ==
    CASE c = "0" -> 0 [] c = "1" -> 1 [] c = "2" -> 2 [] c = "3" -> 3
      [] c = "4" -> 4 [] c = "5" -> 5 [] c = "6" -> 6 [] c = "7" -> 7
      [] c = "8" -> 8 [] c = "9" -> 9

\* ------------------------------------------------------------------- Maps
\* A JS Map: entries in insertion order, keys unique; set() on an existing
\* key replaces the value in place, delete() removes the entry.

MapKeys(m) == {m[i].k : i \in 1..Len(m)}
MapHas(m, key) == key \in MapKeys(m)
MapIndex(m, key) == CHOOSE i \in 1..Len(m) : m[i].k = key
MapGet(m, key) == IF MapHas(m, key) THEN Some(m[MapIndex(m, key)].v) ELSE None
MapSet(m, key, val) ==
    IF MapHas(m, key)
    THEN [m EXCEPT ![MapIndex(m, key)] = [k |-> key, v |-> val]]
    ELSE Append(m, [k |-> key, v |-> val])
MapDelete(m, key) ==
    IF MapHas(m, key)
    THEN LET i == MapIndex(m, key)
         IN  SubSeq(m, 1, i - 1) \o SubSeq(m, i + 1, Len(m))
    ELSE m
MapValues(m) == [i \in 1..Len(m) |-> m[i].v]
MapClear == <<>>

\* ---------------------------------------------------------------- filters

FilterTypes == {"Location", "Tag", "Kind", "Category", "Hidden"}

FilterTypeName(t) ==
    CASE t = "Location" -> <<"L", "o", "c", "a", "t", "i", "o", "n">>
      [] t = "Tag"      -> <<"T", "a", "g">>
      [] t = "Kind"     -> <<"K", "i", "n", "d">>
      [] t = "Category" -> <<"C", "a", "t", "e", "g", "o", "r", "y">>
      [] t = "Hidden"   -> <<"H", "i", "d", "d", "e", "n">>

\* A Filter object. icon and key are optional properties.
Filter(t, n, v, i) == [type |-> t, name |-> n, value |-> v, icon |-> i, key |-> None]

getKey(filter) ==
    FilterTypeName(filter.type) \o Dash \o filter.name \o Dash \o filter.value

\* !s for an optional string: undefined, null and '' are falsy
Falsy(o) == o = None \/ o = Some(Empty)

\* selected entry: { ...filter, condition, canBeRemoved }
SetFilter(filter, condition, canBeRemoved) ==
    [type |-> filter.type, name |-> filter.name, value |-> filter.value,
     icon |-> filter.icon, key |-> filter.key,
     condition |-> condition, canBeRemoved |-> canBeRemoved]

\* ------------------------------------------------------- store operations

\* selectFilter that leaves an entry marked canBeRemoved = false alone
selectFilterKeepsFixed(sel, filter, condition, canBeRemoved) ==
    IF \E i \in 1..Len(sel) : sel[i].k = getKey(filter) /\ sel[i].v.canBeRemoved = FALSE
    THEN sel
    ELSE MapSet(sel, getKey(filter), SetFilter(filter, condition, canBeRemoved))

selectFilter(sel, filter, condition, canBeRemoved) ==
    MapSet(sel, getKey(filter), SetFilter(filter, condition, canBeRemoved))

\* deselectFilter without the canBeRemoved test
deselectFilterUnguarded(sel, filter) == MapDelete(sel, getKey(filter))

\* setFilter?.canBeRemoved !== false
deselectFilter(sel, filter) ==
    LET key == getKey(filter)
        setFilter == MapGet(sel, key)
    IN  IF setFilter = None \/ The(setFilter).canBeRemoved # FALSE
        THEN MapDelete(sel, key)
        ELSE sel

\* resetSearchStore: the new (searchQuery, selectedFilters); the registry is
\* not touched
resetSearchStore == [searchQuery |-> None, selectedFilters |-> MapClear]

\* ------------------------------------------------ useSearchFilters (fixed)

\* JSON.stringify of one filter object: its own properties in order, an
\* undefined icon left out, an icon assigned later coming last
StringifyFilter(f) ==
    << <<"type", f.type>>, <<"name", f.name>>, <<"value", f.value>> >>
    \o (IF f.icon = None THEN <<>> ELSE << <<"icon", The(f.icon)>> >>)

\* JSON.stringify(fixedFilters): undefined for an undefined argument
Stringify(arr) ==
    IF arr = None THEN None
    ELSE Some([i \in 1..Len(The(arr)) |-> StringifyFilter(The(arr)[i])])

\* if (!filter.icon) filter.icon = filter.name   (mutates the caller's object)
FillIcon(filter) ==
    IF Falsy(filter.icon) THEN [filter EXCEPT !.icon = Some(filter.name)] ELSE filter

\* the body of the for loop over fixedFilters, from index i on;
\* st = [arr, reg, sel] is the array (its objects are mutated), the registry
\* and the selection
RECURSIVE FixedLoop(_, _)
FixedLoop(st, i) ==
    IF i > Len(st.arr) THEN st
    ELSE IF st.arr[i].name = Empty THEN FixedLoop(st, i + 1)
    ELSE LET filter == FillIcon(st.arr[i])
         IN  FixedLoop([arr |-> [st.arr EXCEPT ![i] = filter],
                        reg |-> MapSet(st.reg, filter.value, filter),
                        sel |-> selectFilter(st.sel, filter, TRUE, FALSE)],
                       i + 1)

\* FixedEffect, had the reset emptied the registry as well
FixedEffectClearsRegistry(arr, reg) ==
    IF arr = None
    THEN [arr |-> None, reg |-> MapClear, sel |-> MapClear]
    ELSE LET r == FixedLoop([arr |-> The(arr), reg |-> MapClear, sel |-> MapClear], 1)
         IN  [arr |-> Some(r.arr), reg |-> r.reg, sel |-> r.sel]

\* the effect of useSearchFilters: reset, then register and select each
\* fixed filter
FixedEffect(arr, reg) ==
    IF arr = None
    THEN [arr |-> None, reg |-> reg, sel |-> resetSearchStore.selectedFilters]
    ELSE LET r == FixedLoop([arr |-> The(arr), reg |-> reg,
                             sel |-> resetSearchStore.selectedFilters], 1)
         IN  [arr |-> Some(r.arr), reg |-> r.reg, sel |-> r.sel]

\* ------------------------------------------------------- useSearchFilter

\* filterArgs?.length
ArgsLength(filterArgs) == IF filterArgs = None THEN None ELSE Some(Len(The(filterArgs)))

\* (filterArgs || []).map(filter => ({ ...filter, type, key: getKey(...) }))
MemoFilters(type, filterArgs) ==
    LET args == IF filterArgs = None THEN <<>> ELSE The(filterArgs)
    IN  [i \in 1..Len(args) |->
            LET f == Filter(type, args[i].name, args[i].value, args[i].icon)
            IN  [f EXCEPT !.key = Some(getKey(f))]]

\* RegisterOne without the has() test
RegisterOneOverwriting(reg, filter) == MapSet(reg, The(filter.key), filter)

\* only register filters that haven't already been registered
RegisterOne(reg, filter) ==
    IF ~MapHas(reg, The(filter.key)) THEN MapSet(reg, The(filter.key), filter) ELSE reg

RECURSIVE RegisterFrom(_, _, _)
RegisterFrom(reg, filters, i) ==
    IF i > Len(filters) THEN reg
    ELSE RegisterFrom(RegisterOne(reg, filters[i]), filters, i + 1)

RegisterFilters(reg, filters) == RegisterFrom(reg, filters, 1)

\* ------------------------------------------------------- useSavedSearches

FindSearch(id) ==
    IF \E i \in 1..Len(searches) : searches[i].id = id
    THEN Some(searches[CHOOSE i \in 1..Len(searches) :
                  /\ searches[i].id = id
                  /\ \A j \in 1..(i - 1) : searches[j].id # id])
    ELSE None

\* { type: filter_type, name, value, icon: icon || '' }
LoadedFilter(saved) ==
    Filter(saved.filter_type, saved.name, saved.value,
           Some(IF Falsy(saved.icon) THEN Empty ELSE The(saved.icon)))

\* loadSearch registering into an emptied registry
LoadRegisterReplacing(reg, filter) == MapSet(MapClear, getKey(filter), filter)

LoadRegister(reg, filter) == MapSet(reg, getKey(filter), filter)

RECURSIVE LoadLoop(_, _, _)
LoadLoop(st, filters, i) ==
    IF i > Len(filters) THEN st
    ELSE LET filter == LoadedFilter(filters[i])
         IN  LoadLoop([reg |-> LoadRegister(st.reg, filter),
                       sel |-> selectFilter(st.sel, filter, TRUE, TRUE)],
                      filters, i + 1)

\* loadSearch without selectedFilters.clear()
loadSearchKeepsSelection(reg, sel, id) ==
    LET search == FindSearch(id)
    IN  IF search = None \/ The(search).filters = None THEN [reg |-> reg, sel |-> sel]
        ELSE LoadLoop([reg |-> reg, sel |-> sel], The(The(search).filters), 1)

\* loadSearch clearing the selection before it looks the search up
loadSearchClearsFirst(reg, sel, id) ==
    LET search == FindSearch(id)
    IN  IF search = None \/ The(search).filters = None THEN [reg |-> reg, sel |-> MapClear]
        ELSE LoadLoop([reg |-> reg, sel |-> MapClear], The(The(search).filters), 1)

\* loadSearch(id) on (registry, selection)
loadSearch(reg, sel, id) ==
    LET search == FindSearch(id)
    IN  IF search = None THEN [reg |-> reg, sel |-> sel]
        ELSE IF The(search).filters = None THEN [reg |-> reg, sel |-> MapClear]
        ELSE LoadLoop([reg |-> reg, sel |-> MapClear], The(The(search).filters), 1)

Folder == <<"F", "o", "l", "d", "e", "r">>

\* { filter_type, name, value, icon: filter.icon || 'Folder' }
SavedFilter(filter) ==
    [filter_type |-> filter.type, name |-> filter.name, value |-> filter.value,
     icon |-> Some(IF Falsy(filter.icon) THEN Folder ELSE The(filter.icon))]

SavePayload(sel, name) ==
    [name |-> name, description |-> Empty, icon |-> Empty,
     filters |-> [i \in 1..Len(sel) |-> SavedFilter(MapValues(sel)[i])]]

\* --------------------------------------------------------- query derivation

\* parseInt(s): leading blanks and one sign are skipped, the digits that
\* follow are read, anything after them is ignored; NaN without a digit
RECURSIVE SkipBlanks(_)
SkipBlanks(s) == IF s # <<>> /\ Head(s) = " " THEN SkipBlanks(Tail(s)) ELSE s

RECURSIVE ReadDigits(_, _)
ReadDigits(s, acc) ==
    IF s # <<>> /\ Head(s) \in Digits
    THEN ReadDigits(Tail(s), 10 * acc + DigitVal(Head(s)))
    ELSE acc

ParseInt(str) ==
    LET t == SkipBlanks(str)
        neg == t # <<>> /\ Head(t) = "-"
        u == IF t # <<>> /\ Head(t) \in {"-", "+"} THEN Tail(t) ELSE t
    IN  IF u # <<>> /\ Head(u) \in Digits
        THEN [nan |-> FALSE, n |-> IF neg THEN 0 - ReadDigits(u, 0) ELSE ReadDigits(u, 0)]
        ELSE [nan |-> TRUE, n |-> 0]

\* the accumulating helper of ./util: one signed list per field, each id
\* recorded as "in" (TRUE) or "not in" (FALSE), never both
inOrNotIn(kind, value, condition) ==
    LET old == IF kind = None THEN {} ELSE The(kind)
    IN  {e \in old : e[1] # value} \cup {<<value, condition>>}

NoQuery == [locations |-> None, hidden |-> None, object |-> None]
NoObject == [tags |-> None, kind |-> None, category |-> None]

\* one turn of filters.forEach on acc = [queryParams, objectFilters]
MapOne(acc, filter) ==
    CASE filter.type = "Location" ->
            [acc EXCEPT !.queryParams.locations =
                Some(inOrNotIn(@, ParseInt(filter.value), filter.condition))]
      [] filter.type = "Tag" ->
            [acc EXCEPT !.objectFilters.tags =
                Some(inOrNotIn(@, ParseInt(filter.value), filter.condition))]
      [] filter.type = "Kind" ->
            [acc EXCEPT !.objectFilters.kind =
                Some(inOrNotIn(@, ParseInt(filter.value), filter.condition))]
      [] filter.type = "Category" ->
            [acc EXCEPT !.objectFilters.category =
                Some(inOrNotIn(@, filter.value, filter.condition))]
      [] filter.type = "Hidden" ->
            [acc EXCEPT !.queryParams.hidden = Some(filter.value = StrTrue)]
      [] OTHER -> acc

RECURSIVE MapFrom(_, _, _)
MapFrom(acc, filters, i) ==
    IF i > Len(filters) THEN acc
    ELSE MapFrom(MapOne(acc, filters[i]), filters, i + 1)

\* mapFiltersToQueryParams without the Object.keys(objectFilters).length test
mapFiltersAlwaysNesting(filters) ==
    LET r == MapFrom([queryParams |-> NoQuery, objectFilters |-> NoObject], filters, 1)
    IN  [r EXCEPT !.queryParams.object = Some(r.objectFilters)]

mapFiltersToQueryParams(filters) ==
    LET r == MapFrom([queryParams |-> NoQuery, objectFilters |-> NoObject], filters, 1)
    IN  IF r.objectFilters # NoObject
        THEN [r EXCEPT !.queryParams.object = Some(r.objectFilters)]
        ELSE r

\* ---------------------------------------------------- grouping and search

\* GroupOne without the find(): every filter opens a group
GroupOneAlwaysNew(groups, filter) ==
    Append(groups, [type |-> filter.type, filters |-> <<filter>>])

\* one turn of selectedFilters.forEach on the groups built so far
GroupOne(groups, filter) ==
    IF \E g \in 1..Len(groups) : groups[g].type = filter.type
    THEN LET g == CHOOSE g \in 1..Len(groups) :
                     /\ groups[g].type = filter.type
                     /\ \A h \in 1..(g - 1) : groups[h].type # filter.type
         IN  [groups EXCEPT ![g].filters = Append(@, filter)]
    ELSE Append(groups, [type |-> filter.type, filters |-> <<filter>>])

RECURSIVE GroupFrom(_, _, _)
GroupFrom(groups, filters, i) ==
    IF i > Len(filters) THEN groups
    ELSE GroupFrom(GroupOne(groups, filters[i]), filters, i + 1)

getSelectedFiltersGrouped(sel) == GroupFrom(<<>>, MapValues(sel), 1)

\* String.prototype.toLowerCase, on the letters the inputs use
LowerChar(c) ==
    CASE c = "H" -> "h" [] c = "W" -> "w" [] c = "P" -> "p" [] c = "L" -> "l"
      [] c = "T" -> "t" [] c = "K" -> "k" [] c = "C" -> "c" [] c = "O" -> "o"
      [] c = "Y" -> "y" [] c = "N" -> "n" [] c = "E" -> "e" [] c = "M" -> "m"
      [] OTHER -> c

toLowerCase(str) == [i \in 1..Len(str) |-> LowerChar(str[i])]

\* String.prototype.includes
includes(str, q) ==
    \E i \in 0..(Len(str) - Len(q)) : SubSeq(str, i + 1, i + Len(q)) = q

\* searchRegisteredFilters(query): the registered filters whose Map key
\* contains the query, each returned as { ...filter, key }
searchRegisteredFilters(reg, query) ==
    IF query = Empty THEN <<>>
    ELSE LET match(e) == includes(toLowerCase(e.k), toLowerCase(query))
             hits == SelectSeq(reg, match)
         IN  [i \in 1..Len(hits) |-> [hits[i].v EXCEPT !.key = Some(hits[i].k)]]

\* what useSearchFilters returns for the current selection
DerivedQuery == mapFiltersToQueryParams(MapValues(selectedFilters))

\* the persistence collaborator: a created search appears in the fetched
\* list under a fresh id, a deleted one disappears from it
CreateSavedSearch(payload) ==
    Append(searches, [id |-> nextId, name |-> payload.name, filters |-> Some(payload.filters)])

RECURSIVE DeleteSavedSearch(_, _)
DeleteSavedSearch(list, id) ==
    IF list = <<>> THEN <<>>
    ELSE IF Head(list).id = id THEN DeleteSavedSearch(Tail(list), id)
    ELSE <<Head(list)>> \o DeleteSavedSearch(Tail(list), id)

\* ------------------------------------------------------------------ inputs


LocHome == Filter("Location", Home, <<"1">>, None)
TagWork == Filter("Tag", Work, <<"1">>, Some(<<"T">>))
TagNoName == Filter("Tag", Empty, <<"2">>, None)
HiddenYes == Filter("Hidden", <<"Y">>, StrTrue, None)
HiddenNo == Filter("Hidden", <<"N">>, StrFalse, None)

\* filters the user interface can hand to selectFilter / deselectFilter
FilterPool == {LocHome, HiddenYes, HiddenNo}

\* filters the search options menu offers; two of them differ only in where
\* the '-' stands
TagDashName == Filter("Tag", <<"a", "-", "1">>, <<"2">>, None)
TagDashValue == Filter("Tag", <<"a">>, <<"1", "-", "2">>, None)
KindImage == Filter("Kind", <<"I">>, <<"5">>, None)
CategoryPhotos == Filter("Category", <<"P">>, <<"P", "h">>, None)
OptionPool == {LocHome, TagDashName, TagDashValue, KindImage, CategoryPhotos,
               HiddenYes, HiddenNo}

\* strings typed into the filter search box
SearchInputs == {Empty, <<"h", "o", "m", "e">>, <<"W", "O">>, <<"1">>, <<"-">>}

\* arrays a view can pass as fixedFilters (fresh objects each time)
FixedInputs == {None, Some(<<LocHome>>), Some(<<LocHome, TagNoName>>)}

\* (type, filterArgs) a filter widget can pass to useSearchFilter
ArgWork == [name |-> Work, value |-> <<"1">>, icon |-> Some(<<"W">>)]
ArgPlay == [name |-> Play, value |-> <<"2">>, icon |-> None]
FilterArgInputs == {None, Some(<<ArgWork>>), Some(<<ArgPlay>>)}

\* saved searches the library holds at start
SavedWork == [filter_type |-> "Tag", name |-> Work, value |-> <<"1">>, icon |-> None]
SavedHidden == [filter_type |-> "Hidden", name |-> <<"Y">>, value |-> StrTrue,
                icon |-> Some(<<"E">>)]
InitialSearches ==
    << [id |-> 1, name |-> <<"a">>, filters |-> Some(<<SavedWork, SavedHidden>>)],
       [id |-> 2, name |-> <<"b">>, filters |-> None] >>

SearchIds == 1..(MaxSearchId + 1)
QueryInputs == {Some(<<"q">>)}

\* ------------------------------------------------------------------- state

Init ==
    /\ registeredFilters = <<>>
    /\ selectedFilters = <<>>
    /\ searchQuery = None
    /\ fixedFilters = None
    /\ usf = [mounted |-> FALSE, deps |-> None]
    /\ sf = [mounted |-> FALSE, deps |-> None, filters |-> <<>>]
    /\ searches = InitialSearches
    /\ nextId = Len(InitialSearches) + 1
    /\ lastOp = [op |-> "init", arg |-> <<>>]

\* a render of the view that owns useSearchFilters, passing `arr` (`same`:
\* it is the array object of the previous render): the effect runs on mount
\* and whenever JSON.stringify(fixedFilters) differs from the previous
\* render's
RenderSearchFilters(arr, same) ==
    LET deps == Stringify(arr)
        run == ~usf.mounted \/ deps # usf.deps
        r == FixedEffect(arr, registeredFilters)
    IN  /\ usf' = [mounted |-> TRUE, deps |-> deps]
        /\ IF run
           THEN /\ Len(r.reg) <= MaxRegistered
                /\ searchQuery' = resetSearchStore.searchQuery
                /\ selectedFilters' = r.sel
                /\ registeredFilters' = r.reg
                /\ fixedFilters' = r.arr
           ELSE /\ fixedFilters' = arr
                /\ UNCHANGED <<searchQuery, selectedFilters, registeredFilters>>
        /\ lastOp' = [op |-> IF run THEN "fixedEffect" ELSE "render", arg |-> arr,
                      same |-> same]
        /\ UNCHANGED <<sf, searches, nextId>>

\* the view passes a new array
RenderFresh == \E arr \in FixedInputs : RenderSearchFilters(arr, FALSE)

\* the view renders again with the array object it passed before
RenderSame == usf.mounted /\ RenderSearchFilters(fixedFilters, TRUE)

\* the owning view unmounts: the effect returns no cleanup function
Unmount ==
    /\ usf.mounted
    /\ usf' = [mounted |-> FALSE, deps |-> None]
    /\ lastOp' = [op |-> "unmount", arg |-> <<>>]
    /\ UNCHANGED <<registeredFilters, selectedFilters, searchQuery, fixedFilters,
                   sf, searches, nextId>>

\* a render of a filter widget: memo and effect are keyed by filterArgs?.length
RenderSearchFilter(type, filterArgs) ==
    LET deps == ArgsLength(filterArgs)
        run == ~sf.mounted \/ deps # sf.deps
        filters == IF run THEN MemoFilters(type, filterArgs) ELSE sf.filters
        reg == IF run THEN RegisterFilters(registeredFilters, filters)
               ELSE registeredFilters
    IN  /\ Len(reg) <= MaxRegistered
        /\ sf' = [mounted |-> TRUE, deps |-> deps, filters |-> filters]
        /\ registeredFilters' = reg
        /\ lastOp' = [op |-> IF run THEN "register" ELSE "renderFilter",
                      arg |-> filterArgs]
        /\ UNCHANGED <<selectedFilters, searchQuery, fixedFilters, usf, searches, nextId>>

RenderFilterWidget == \E a \in FilterArgInputs : RenderSearchFilter("Tag", a)

\* filters the user can pick: the pool and what useSearchFilter returned
Selectable == FilterPool \cup {sf.filters[i] : i \in 1..Len(sf.filters)}

SelectFilter ==
    \E f \in Selectable, condition \in BOOLEAN, canBeRemoved \in BOOLEAN :
        /\ Len(selectFilter(selectedFilters, f, condition, canBeRemoved)) <= MaxSelected
        /\ selectedFilters' = selectFilter(selectedFilters, f, condition, canBeRemoved)
        /\ lastOp' = [op |-> "select", arg |-> <<f, condition, canBeRemoved>>]
        /\ UNCHANGED <<registeredFilters, searchQuery, fixedFilters, usf, sf, searches, nextId>>

DeselectFilter ==
    \E f \in Selectable :
        /\ selectedFilters' = deselectFilter(selectedFilters, f)
        /\ lastOp' = [op |-> "deselect", arg |-> f]
        /\ UNCHANGED <<registeredFilters, searchQuery, fixedFilters, usf, sf, searches, nextId>>

\* the search options menu: selectFilter(filter, condition), canBeRemoved
\* left to its default
PickOption ==
    \E f \in OptionPool, condition \in BOOLEAN :
        /\ Len(selectFilter(selectedFilters, f, condition, TRUE)) <= MaxPicked
        /\ selectedFilters' = selectFilter(selectedFilters, f, condition, TRUE)
        /\ lastOp' = [op |-> "select", arg |-> <<f, condition, TRUE>>]
        /\ UNCHANGED <<registeredFilters, searchQuery, fixedFilters, usf, sf, searches, nextId>>

DropOption ==
    \E f \in OptionPool :
        /\ selectedFilters' = deselectFilter(selectedFilters, f)
        /\ lastOp' = [op |-> "deselect", arg |-> f]
        /\ UNCHANGED <<registeredFilters, searchQuery, fixedFilters, usf, sf, searches, nextId>>

\* the applied-filters bar reads the selection grouped by type
GroupSelected ==
    /\ lastOp' = [op |-> "grouped", arg |-> getSelectedFiltersGrouped(selectedFilters)]
    /\ UNCHANGED <<registeredFilters, selectedFilters, searchQuery, fixedFilters,
                   usf, sf, searches, nextId>>

ResetSearchStore ==
    /\ searchQuery' = resetSearchStore.searchQuery
    /\ selectedFilters' = resetSearchStore.selectedFilters
    /\ lastOp' = [op |-> "reset", arg |-> <<>>]
    /\ UNCHANGED <<registeredFilters, fixedFilters, usf, sf, searches, nextId>>

\* the search bar writes the query through getSearchStore()
SetSearchQuery ==
    \E q \in QueryInputs :
        /\ searchQuery' = q
        /\ lastOp' = [op |-> "query", arg |-> q]
        /\ UNCHANGED <<registeredFilters, selectedFilters, fixedFilters, usf, sf,
                       searches, nextId>>

LoadSearch ==
    \E id \in SearchIds :
        LET r == loadSearch(registeredFilters, selectedFilters, id)
        IN  /\ Len(r.reg) <= MaxRegistered
            /\ Len(r.sel) <= MaxSelected
            /\ registeredFilters' = r.reg
            /\ selectedFilters' = r.sel
            /\ lastOp' = [op |-> "load", arg |-> id]
            /\ UNCHANGED <<searchQuery, fixedFilters, usf, sf, searches, nextId>>

SaveSearch ==
    /\ nextId <= MaxSearchId
    /\ searches' = CreateSavedSearch(SavePayload(selectedFilters, <<"s">>))
    /\ nextId' = nextId + 1
    /\ lastOp' = [op |-> "save", arg |-> nextId]
    /\ UNCHANGED <<registeredFilters, selectedFilters, searchQuery, fixedFilters,
                   usf, sf>>

RemoveSearch ==
    \E id \in SearchIds :
        /\ searches' = DeleteSavedSearch(searches, id)
        /\ lastOp' = [op |-> "remove", arg |-> id]
        /\ UNCHANGED <<registeredFilters, selectedFilters, searchQuery, fixedFilters,
                       usf, sf, nextId>>

Next ==
    \/ RenderFresh
    \/ RenderSame
    \/ Unmount
    \/ RenderFilterWidget
    \/ SelectFilter
    \/ DeselectFilter
    \/ ResetSearchStore
    \/ SetSearchQuery
    \/ LoadSearch
    \/ SaveSearch
    \/ RemoveSearch
    \/ PickOption
    \/ DropOption
    \/ GroupSelected

Spec == Init /\ [][Next]_vars

\* Spec is the whole store. Its components (selection, registry, the two
\* hooks, the saved searches) multiply, so each of the specifications below
\* runs the operations of one part of the user interface over the same state.

\* the owning view and the user's selection
NextSelection ==
    \/ RenderFresh
    \/ RenderSame
    \/ Unmount
    \/ SelectFilter
    \/ DeselectFilter
    \/ ResetSearchStore
    \/ SetSearchQuery
    \/ LoadSearch

SpecSelection == Init /\ [][NextSelection]_vars

\* the filter widgets, the owning view and the saved searches writing the
\* registry
NextRegistry ==
    \/ RenderFilterWidget
    \/ RenderFresh
    \/ RenderSame
    \/ LoadSearch
    \/ DeselectFilter

SpecRegistry == Init /\ [][NextRegistry]_vars

\* saving, loading and removing searches
NextSaved ==
    \/ SelectFilter
    \/ LoadSearch
    \/ SaveSearch
    \/ RemoveSearch

SpecSaved == Init /\ [][NextSaved]_vars

\* a view with fixed filters and the filter bar over it
NextUpsert ==
    \/ RenderFresh
    \/ SelectFilter
    \/ DeselectFilter
    \/ ResetSearchStore

SpecUpsert == Init /\ [][NextUpsert]_vars

\* the search options menu and the applied-filters bar
NextOptions ==
    \/ PickOption
    \/ DropOption
    \/ GroupSelected

SpecOptions == Init /\ [][NextOptions]_vars

\* every writer of the registry, with the operations that reset or persist
NextFrame ==
    \/ RenderFilterWidget
    \/ RenderFresh
    \/ LoadSearch
    \/ DeselectFilter
    \/ ResetSearchStore
    \/ SaveSearch
    \/ RemoveSearch

SpecFrame == Init /\ [][NextFrame]_vars

\* ------------------------------------------------------------- properties

\* the entry of `sel` under `key`, as a set (empty when there is none)
EntriesAt(sel, key) == {sel[i].v : i \in {j \in 1..Len(sel) : sel[j].k = key}}

\* the filters of a fixedFilters argument
FixedOf(arr) == IF arr = None THEN {} ELSE {The(arr)[i] : i \in 1..Len(The(arr))}

\* key(f) is selected and marked canBeRemoved = false
SelectedFixed(sel, f) == \E e \in EntriesAt(sel, getKey(f)) : e.canBeRemoved = FALSE

\* C1: once the owning view has initialized its fixed filters, a fixed filter
\* that is selected with canBeRemoved = false stays selected with
\* canBeRemoved = false over every later step (deselectFilter, registration,
\* loadSearch, a re-render) that is not a new fixed-filter initialization.
C1_FixedFiltersStaySelected ==
    [][(usf.mounted /\ lastOp'.op # "fixedEffect")
        => \A f \in FixedOf(fixedFilters) :
              SelectedFixed(selectedFilters, f) => SelectedFixed(selectedFilters', f)]_vars

\* the selection without the entry under `key`
Without(sel, key) ==
    LET keep(e) == e.k # key IN SelectSeq(sel, keep)

\* C2: deselectFilter(f) leaves the Selection exactly as it is when the entry
\* under key(f) has canBeRemoved = false, and otherwise removes the entry
\* under key(f) and nothing else.
C2_DeselectProtectsFixed ==
    [][lastOp'.op = "deselect"
        => LET f == lastOp'.arg
           IN  IF SelectedFixed(selectedFilters, f)
               THEN selectedFilters' = selectedFilters
               ELSE selectedFilters' = Without(selectedFilters, getKey(f))]_vars

\* C2 witness: deselectFilter was called on a filter whose entry has
\* canBeRemoved = false, and another entry is selected beside it
C2_Witness ==
    /\ lastOp.op = "deselect"
    /\ SelectedFixed(selectedFilters, lastOp.arg)
    /\ Len(selectedFilters) = 2

\* C3: every key of the Selection is a key of the Registry.
C3_SelectedAreRegistered ==
    MapKeys(selectedFilters) \subseteq MapKeys(registeredFilters)

\* the composite key of a saved filter
SavedKey(saved) ==
    FilterTypeName(saved.filter_type) \o Dash \o saved.name \o Dash \o saved.value

SavedKeys(search) ==
    IF search.filters = None THEN {}
    ELSE {SavedKey(The(search.filters)[i]) : i \in 1..Len(The(search.filters))}

\* C4: right after loadSearch(id) of a fetched search S, the Selection holds
\* exactly the keys of S's filters, each with condition = true and
\* canBeRemoved = true.
C4_LoadReplacesSelection ==
    (lastOp.op = "load" /\ FindSearch(lastOp.arg) # None)
    => /\ MapKeys(selectedFilters) = SavedKeys(The(FindSearch(lastOp.arg)))
       /\ \A i \in 1..Len(selectedFilters) :
             /\ selectedFilters[i].v.condition = TRUE
             /\ selectedFilters[i].v.canBeRemoved = TRUE

\* C4 witness: a search with filters was loaded while the owning view holds a
\* fixed filter that is not among them
C4_Witness ==
    /\ lastOp.op = "load"
    /\ FindSearch(lastOp.arg) # None
    /\ Len(selectedFilters) = 2
    /\ usf.mounted
    /\ fixedFilters # None
    /\ \E f \in FixedOf(fixedFilters) :
          f.name # Empty /\ getKey(f) \notin MapKeys(selectedFilters)

\* the orders in which a list of n elements can be iterated
Orders(n) == {p \in [1..n -> 1..n] : \A i, j \in 1..n : p[i] = p[j] => i = j}

\* C5: the derived query does not depend on the order of the selected filters.
C5_QueryOrderIndependent ==
    LET filters == MapValues(selectedFilters)
    IN  \A p \in Orders(Len(filters)) :
           mapFiltersToQueryParams([i \in 1..Len(filters) |-> filters[p[i]]])
             = mapFiltersToQueryParams(filters)

\* the filters of a fixedFilters argument that the effect handles
NamedOf(arr) == {f \in FixedOf(arr) : f.name # Empty}

\* C6: right after fixed-filter initialization with F, every filter f of F,
\* whatever its name, is selected with condition = true and canBeRemoved =
\* false, is registered under its key, and has icon = name if it came without
\* an icon; nothing else is selected.
C6_FixedInitSelectsAll ==
    lastOp.op = "fixedEffect"
    => /\ \A f \in FixedOf(lastOp.arg) :
             /\ \E e \in EntriesAt(selectedFilters, getKey(f)) :
                   /\ e.condition = TRUE
                   /\ e.canBeRemoved = FALSE
                   /\ f.icon = None => e.icon = Some(f.name)
             /\ MapHas(registeredFilters, getKey(f))
       /\ MapKeys(selectedFilters) \subseteq {getKey(f) : f \in FixedOf(lastOp.arg)}

\* the Registry keys a fixed filter can be registered under
FixedRegistryKeys(arr) ==
    {f.value : f \in FixedOf(arr)} \cup {getKey(f) : f \in FixedOf(arr)}

C8_SameFiltersInitializeOnce ==
    [][(lastOp'.op \in {"fixedEffect", "render"} /\ lastOp'.same)
        => /\ lastOp'.op = "render"
           /\ selectedFilters' = selectedFilters]_vars

\* C9: registering the filters of a widget a second time changes nothing, and
\* registering never changes the value of a key that is already registered.
C9_RegisterIdempotent ==
    [][lastOp'.op = "register"
        => /\ RegisterFilters(registeredFilters', sf'.filters) = registeredFilters'
           /\ \A k \in MapKeys(registeredFilters) :
                 MapGet(registeredFilters', k) = MapGet(registeredFilters, k)]_vars

\* C9 witness: a widget registered a filter whose key was already registered
\* with another value, which is still the registered one
C9_Witness ==
    /\ lastOp.op = "register"
    /\ \E i \in 1..Len(sf.filters) :
          /\ MapHas(registeredFilters, The(sf.filters[i].key))
          /\ MapGet(registeredFilters, The(sf.filters[i].key)) # Some(sf.filters[i])

\* C10: no step changes the value the Registry holds under a key.
C10_RegistryEntriesImmutable ==
    [][\A k \in MapKeys(registeredFilters) :
          MapGet(registeredFilters', k) = MapGet(registeredFilters, k)]_vars

\* the identity (type, name, value) of a filter
Identity(f) == <<f.type, f.name, f.value>>

\* C11: selectFilter(f, condition, canBeRemoved) leaves exactly one entry
\* under key(f), holding f with the condition and canBeRemoved of the call
\* (whatever was there before), and changes no other entry and nothing of the
\* Registry.
C11_SelectUpserts ==
    [][lastOp'.op = "select"
        => LET f == lastOp'.arg[1]
               key == getKey(f)
           IN  /\ Cardinality({i \in 1..Len(selectedFilters') :
                                  selectedFilters'[i].k = key}) = 1
               /\ \A e \in EntriesAt(selectedFilters', key) :
                     /\ Identity(e) = Identity(f)
                     /\ e.icon = f.icon
                     /\ e.condition = lastOp'.arg[2]
                     /\ e.canBeRemoved = lastOp'.arg[3]
               /\ Without(selectedFilters', key) = Without(selectedFilters, key)
               /\ registeredFilters' = registeredFilters]_vars

\* C11 witness: a fixed filter of the mounted view was selected again with
\* canBeRemoved = true, beside another entry
C11_Witness ==
    /\ lastOp.op = "select"
    /\ lastOp.arg[3] = TRUE
    /\ usf.mounted
    /\ \E f \in NamedOf(fixedFilters) : getKey(f) = getKey(lastOp.arg[1])
    /\ Len(selectedFilters) = 2

\* the types whose filters go into objectFilters
ObjectTypes == {"Tag", "Kind", "Category"}

SelectedOfType(types) ==
    {i \in 1..Len(selectedFilters) : selectedFilters[i].v.type \in types}

\* C12: queryParams.object is present exactly when a Tag, Kind or Category
\* filter is selected (and is then objectFilters), and objectFilters.tags is
\* present exactly when a Tag filter is selected.
C12_ObjectPresentIffObjectFilter ==
    /\ IsSome(DerivedQuery.queryParams.object) <=> SelectedOfType(ObjectTypes) # {}
    /\ IsSome(DerivedQuery.objectFilters.tags) <=> SelectedOfType({"Tag"}) # {}
    /\ IsSome(DerivedQuery.queryParams.object)
          => The(DerivedQuery.queryParams.object) = DerivedQuery.objectFilters

\* C12 witness: a Tag filter was deselected, the Selection is empty and the
\* derived query has no object
C12_Witness ==
    /\ lastOp.op = "deselect"
    /\ lastOp.arg.type = "Tag"
    /\ selectedFilters = <<>>
    /\ DerivedQuery.queryParams.object = None
    /\ DerivedQuery.objectFilters.tags = None

\* the identities in a list of filters
IdentitiesOf(list) == {Identity(list[i]) : i \in 1..Len(list)}

\* C13: searchRegisteredFilters("") is empty, and for every other query it
\* returns exactly the registered filters whose composite key
\* type-name-value contains the query, letter case ignored.
C13_SearchFindsByCompositeKey ==
    \A q \in SearchInputs :
       IF q = Empty
       THEN searchRegisteredFilters(registeredFilters, q) = <<>>
       ELSE IdentitiesOf(searchRegisteredFilters(registeredFilters, q))
              = {Identity(registeredFilters[i].v) :
                   i \in {j \in 1..Len(registeredFilters) :
                            includes(toLowerCase(getKey(registeredFilters[j].v)),
                                     toLowerCase(q))}}

\* the first position of a filter of type t in the list
FirstOfType(list, t) ==
    CHOOSE i \in 1..Len(list) :
        list[i].type = t /\ \A j \in 1..(i - 1) : list[j].type # t

\* the filters of type t in the list, in its order
OfType(list, t) == LET is(f) == f.type = t IN SelectSeq(list, is)

\* C14: getSelectedFiltersGrouped gives one group per selected type, ordered
\* by the first filter of each type; a group holds the selected filters of its
\* type in Selection order, so every selected filter is in exactly one group;
\* Selection and Registry are left as they were.
C14_GroupedPartitions ==
    [][lastOp'.op = "grouped"
        => LET groups == lastOp'.arg
               list == MapValues(selectedFilters)
           IN  /\ {groups[g].type : g \in 1..Len(groups)}
                     = {list[i].type : i \in 1..Len(list)}
               /\ \A g, h \in 1..Len(groups) :
                     /\ groups[g].type = groups[h].type => g = h
                     /\ g < h => FirstOfType(list, groups[g].type)
                                   < FirstOfType(list, groups[h].type)
               /\ \A g \in 1..Len(groups) :
                     groups[g].filters = OfType(list, groups[g].type)
               /\ \A i \in 1..Len(list) :
                     Cardinality({<<g, j>> \in (1..Len(groups)) \X (1..Len(list)) :
                                     /\ j <= Len(groups[g].filters)
                                     /\ groups[g].filters[j] = list[i]}) = 1
               /\ selectedFilters' = selectedFilters
               /\ registeredFilters' = registeredFilters]_vars

\* C14 witness: the grouped selection was read while it held a filter of one
\* type between two filters of another
C14_Witness ==
    /\ lastOp.op = "grouped"
    /\ Len(selectedFilters) = 3
    /\ selectedFilters[1].v.type = selectedFilters[3].v.type
    /\ selectedFilters[1].v.type # selectedFilters[2].v.type
    /\ Len(lastOp.arg) = 2

\* C15: two filters have the same key exactly when they have the same type,
\* name and value, so selecting a filter leaves the entry of every filter of
\* another identity in the Selection.
C15_KeyIsIdentity ==
    [][lastOp'.op = "select"
        => \A i \in 1..Len(selectedFilters) :
              Identity(selectedFilters[i].v) # Identity(lastOp'.arg[1])
              => /\ getKey(selectedFilters[i].v) # getKey(lastOp'.arg[1])
                 /\ \E j \in 1..Len(selectedFilters') :
                       selectedFilters'[j] = selectedFilters[i]]_vars

\* C16: right after the owning view unmounts, the Selection is empty and
\* searchQuery is null.
C16_UnmountResetsStore ==
    lastOp.op = "unmount" => (selectedFilters = <<>> /\ searchQuery = None)

\* C17: loadSearch of the search that saveSearch has just made of the
\* Selection gives back a Selection with the same keys and, under every key,
\* the same condition.
C17_SaveLoadRoundTrip ==
    [][(lastOp.op = "save" /\ lastOp'.op = "load" /\ lastOp'.arg = lastOp.arg)
        => /\ MapKeys(selectedFilters') = MapKeys(selectedFilters)
           /\ \A k \in MapKeys(selectedFilters) :
                 {e.condition : e \in EntriesAt(selectedFilters', k)}
                   = {e.condition : e \in EntriesAt(selectedFilters, k)}]_vars

\* C18: after a render of a filter widget and its registration effect, the
\* key of every filter in the list passed to that render is registered.
C18_RenderRegistersCurrentList ==
    lastOp.op \in {"register", "renderFilter"}
    => \A a \in FixedOf(lastOp.arg) :
          getKey(Filter("Tag", a.name, a.value, a.icon)) \in MapKeys(registeredFilters)

\* C19: loadSearch(id) with an id no fetched search has changes neither the
\* Selection nor the Registry nor searchQuery.
C19_LoadUnknownIsNoOp ==
    [][(lastOp'.op = "load" /\ FindSearch(lastOp'.arg) = None)
        => /\ selectedFilters' = selectedFilters
           /\ registeredFilters' = registeredFilters
           /\ searchQuery' = searchQuery]_vars

\* C19 witness: an unknown id was loaded while filters are selected and
\* registered and a query is typed
C19_Witness ==
    /\ lastOp.op = "load"
    /\ FindSearch(lastOp.arg) = None
    /\ selectedFilters # <<>>
    /\ registeredFilters # <<>>
    /\ searchQuery # None

====
